---- MODULE Spec2Model ----
(***************************************************************************)
(* Resilience core of the trip planner: CircuitBreaker, RateLimiter and    *)
(* Cache (with fetchWithCache), modelled as state machines over a shared   *)
(* millisecond clock `now` (Date.now()), scaled to small tick counts.      *)
(*                                                                         *)
(* The runtime is single-threaded and cooperative: every action below is  *)
(* the code that runs between two suspension points (awaits / timers).     *)
(***************************************************************************)
EXTENDS Integers, Sequences, FiniteSets, TLC

VARIABLES
  now,            \* Date.now()
  \* ---- CircuitBreaker (src/app/lib/circuit-breaker.ts)
  cbState,        \* this.state
  failureCount,   \* this.failureCount
  successCount,   \* this.successCount
  nextAttempt,    \* this.nextAttempt
  cbOptions,      \* this.options
  callPc,         \* per execute() caller: "idle" | "racing" | "late"
  callStart,      \* per caller: Date.now() when fn() and the timer were started
  callResult,     \* per caller: how its last execute() settled
  streak,         \* execute calls that failed since the last one that succeeded
  okRun,          \* calls that succeeded in HALF_OPEN since it was entered or one failed
  \* ---- RateLimiter (src/unnamed/part_011)
  tokens,         \* this.tokens
  lastRefill,     \* this.lastRefill
  rlOptions,      \* this.options
  rlPc,           \* per acquire() caller: "idle" | "waiting"
  rlWant,         \* per caller: the `tokens` argument of its suspended acquire
  rlWake,         \* per caller: when the setTimeout of its wait is due
  rlGrant,        \* the last deduction: [n |-> asked, found |-> tokens it found]
  \* ---- Cache and fetchWithCache (src/app/lib/cache.ts)
  cache,          \* this.cache: a Map from cache key to CacheEntry
  accessOrder,    \* this.accessOrder
  last,           \* what the application's last own call of the Cache API returned
  lastSet,        \* the application's latest own set call, while its entry is stored
  recent,         \* stored keys by their latest get hit or set, oldest first
  fPc,            \* per fetchWithCache caller: "idle" | "fetching"
  fArg,           \* per caller: the arguments of its call
  fOut,           \* how the last fetchWithCache call to end has ended
  fTouched,       \* per waiting caller: the get of its call changed the cache
  fDirty,         \* per waiting caller: another task changed the cache since
  \* ---- fetchWithRetry (src/unnamed/part_015), one run per caller
  rtPc,           \* per run: "idle" | "attempting" | "waiting"
  rtAttempt,      \* per run: the loop variable `attempt`
  rtOptions,      \* per run: opts
  rtWake,         \* per run: when the setTimeout of its delay is due
  rtOut,          \* per run: how its last call ended
  rtCalls,        \* per run: invocations of the work in its call
  rtFailed,       \* per run: attempts of its call that failed retryably
  rtOnRetry,      \* per run: onRetry calls in its call
  rtWaits,        \* per run: backoff delays started in its call
  \* ---- Logger (src/app/lib/logger.ts)
  consecutiveLambdaFailures,  \* Logger.consecutiveLambdaFailures
  lambdaDisabledUntil,        \* Logger.lambdaDisabledUntil
  lgEnv,          \* process.env as the logger reads it
  sendPc,         \* per entry: "idle" | "posting" | "sleeping"
  sendAttempt,    \* per entry: the loop variable `attempt`
  sendWake,       \* per entry: when the setTimeout of its sleep is due
  sendResult,     \* per entry: what its last POST came to
  logRaised,      \* the last call of info/warn/error/debug threw
  logPrinted,     \* the last call printed its entry in full
  infoForwardedAt, \* when the client-event info entry was last forwarded, or -1
  \* ---- HealthChecker (src/unnamed/part_012)
  hcStatus,       \* this.status
  consecutiveFailures,
  lastCheck,      \* this.lastCheck, status "none" for null
  intervalId,     \* this.intervalId: "null" | "timer"
  hcOptions,
  hcTimers,       \* the setInterval timers alive in the runtime
  hcNextFire,     \* when the interval timer is next due
  hcTicks,        \* firings of the interval timer since the last start()
  hcStopped,      \* stop() has cleared a timer
  probePc,        \* per check() call: "idle" | "racing"
  probeStart,     \* per check() call: startTime
  \* ---- GET /api/health (src/app/api/health/route.ts)
  healthStatuses, \* getAllHealthStatuses(): per checker, status of its last check
  circuitBreakers, \* getCircuitBreakerState(name) per reported breaker
  overallStatus,  \* the status of the last response, "" before the first
  \* ---- fetchWithFallback (src/unnamed/part_015)
  fbPc,           \* "idle" | "racing" | "fallback"
  fbStart,        \* when the race started
  fbTimeout,      \* the timeout of the call
  fbPrimaryRuns,  \* primary() has not settled yet
  fbCalls,        \* invocations of fallback in the call
  fbOut           \* how the last call ended

cbVars == <<cbState, failureCount, successCount, nextAttempt, cbOptions,
            callPc, callStart, callResult, streak, okRun>>

rlVars == <<tokens, lastRefill, rlOptions, rlPc, rlWant, rlWake, rlGrant>>

fetchVars == <<fPc, fArg, fOut, fTouched>>

cacheVars == <<cache, accessOrder, last, lastSet, recent, fetchVars, fDirty>>

rtVars == <<rtPc, rtAttempt, rtOptions, rtWake, rtOut,
            rtCalls, rtFailed, rtOnRetry, rtWaits>>

lgVars == <<consecutiveLambdaFailures, lambdaDisabledUntil, lgEnv,
            sendPc, sendAttempt, sendWake, sendResult, logRaised,
            logPrinted, infoForwardedAt>>

hcVars == <<hcStatus, consecutiveFailures, lastCheck, intervalId, hcOptions,
            hcTimers, hcNextFire, hcTicks, hcStopped, probePc, probeStart>>

heVars == <<healthStatuses, circuitBreakers, overallStatus>>

fbVars == <<fbPc, fbStart, fbTimeout, fbPrimaryRuns, fbCalls, fbOut>>

vars == <<now, cbVars, rlVars, cacheVars, rtVars, lgVars, hcVars, heVars, fbVars>>

\* what the actions of one component leave alone
notCb == <<rlVars, cacheVars, rtVars, lgVars, hcVars, heVars, fbVars>>
notRl == <<cbVars, cacheVars, rtVars, lgVars, hcVars, heVars, fbVars>>
notCache == <<cbVars, rlVars, rtVars, lgVars, hcVars, heVars, fbVars>>
notRt == <<cbVars, rlVars, cacheVars, lgVars, hcVars, heVars, fbVars>>
notLg == <<cbVars, rlVars, cacheVars, rtVars, hcVars, heVars, fbVars>>
notHc == <<cbVars, rlVars, cacheVars, rtVars, lgVars, heVars, fbVars>>
notHe == <<cbVars, rlVars, cacheVars, rtVars, lgVars, hcVars, fbVars>>
notFb == <<cbVars, rlVars, cacheVars, rtVars, lgVars, hcVars, heVars>>

(***************************************************************************)
(* Bounds of the model.                                                    *)
(***************************************************************************)
MaxNow == 2
MaxCalls == 2
MaxFailureThreshold == 2
MaxSuccessThreshold == 2
MaxResetTimeout == 2
MaxCallTimeout == 1
MaxAcquirers == 2
MaxTokensOption == 2
MaxRefillRate == 1
MaxRefillInterval == 2
MaxFetchers == 2
MaxTtlArg == 1
MaxRetries == 2
MaxInitialDelay == 1
MaxDelay == 2
MaxEntries == 2
MaxAttempts == 2
MaxCooldown == 2
MaxDedupeWindow == 1
MaxProbes == 2
MaxHcInterval == 2
MaxHcTimeout == 1
MaxUnhealthyThreshold == 2
MaxDegradedThreshold == 1
MaxHcFailures == 3
MaxCheckers == 2
MaxBreakers == 2
MaxFbTimeout == 2

Calls == 1..MaxCalls
Acquirers == 1..MaxAcquirers
Fetchers == 1..MaxFetchers
Entries == 1..MaxEntries
Probes == 1..MaxProbes

(***************************************************************************)
(* The clock.  Time passes between any two steps of the event loop.        *)
(***************************************************************************)
Tick ==
  /\ now < MaxNow
  /\ now' = now + 1
  /\ UNCHANGED <<cbVars, rlVars, cacheVars, rtVars, lgVars, hcVars, heVars, fbVars>>

(***************************************************************************)
(* CircuitBreaker                                                          *)
(***************************************************************************)
CbOptionSets ==
  [failureThreshold : 1..MaxFailureThreshold,
   successThreshold : 1..MaxSuccessThreshold,
   timeout          : 1..MaxCallTimeout,
   resetTimeout     : 1..MaxResetTimeout]

\* new CircuitBreaker(name, options)
CbNew(options) ==
  /\ cbState = "CLOSED"
  /\ failureCount = 0
  /\ successCount = 0
  /\ nextAttempt = now
  /\ cbOptions = options
  /\ callPc = [c \in Calls |-> "idle"]
  /\ callStart = [c \in Calls |-> 0]
  /\ callResult = [c \in Calls |-> "none"]
  /\ streak = 0
  /\ okRun = 0

CbInit == \E options \in CbOptionSets : CbNew(options)

\* a breaker nobody calls
CbAtRest ==
  CbNew([failureThreshold |-> 1, successThreshold |-> 1,
         timeout |-> 1, resetTimeout |-> 1])

\* execute(): `this.state === "OPEN"` and `Date.now() < this.nextAttempt`
CbBlocked_late == cbState = "OPEN" /\ now + 1 < nextAttempt

CbBlocked == cbState = "OPEN" /\ now < nextAttempt

\* onSuccess()
onSuccess_counting ==
  /\ failureCount' = failureCount
  /\ IF cbState = "HALF_OPEN"
       THEN /\ successCount' = successCount + 1
            /\ cbState' = IF successCount + 1 >= cbOptions.successThreshold
                            THEN "CLOSED" ELSE cbState
       ELSE /\ successCount' = successCount
            /\ cbState' = cbState
  /\ nextAttempt' = nextAttempt

onSuccess ==
  /\ failureCount' = 0
  /\ IF cbState = "HALF_OPEN"
       THEN /\ successCount' = successCount + 1
            /\ cbState' = IF successCount + 1 >= cbOptions.successThreshold
                            THEN "CLOSED" ELSE cbState
       ELSE /\ successCount' = successCount
            /\ cbState' = cbState
  /\ nextAttempt' = nextAttempt

\* onFailure()
onFailure_keeping ==
  /\ failureCount' = failureCount + 1
  /\ successCount' = successCount
  /\ IF failureCount + 1 >= cbOptions.failureThreshold
       THEN /\ cbState' = "OPEN"
            /\ nextAttempt' = now + cbOptions.resetTimeout
       ELSE /\ cbState' = cbState
            /\ nextAttempt' = nextAttempt

onFailure ==
  /\ failureCount' = failureCount + 1
  /\ successCount' = 0
  /\ IF failureCount + 1 >= cbOptions.failureThreshold
       THEN /\ cbState' = "OPEN"
            /\ nextAttempt' = now + cbOptions.resetTimeout
       ELSE /\ cbState' = cbState
            /\ nextAttempt' = nextAttempt

\* execute(fn), up to its await, on the breaker's own fields
cbExecute(c) ==
  /\ callPc[c] = "idle"
  /\ IF CbBlocked
       THEN /\ callResult' = [callResult EXCEPT ![c] = "blocked"]
            /\ UNCHANGED <<cbState, successCount, callPc, callStart, okRun>>
       ELSE /\ IF cbState = "OPEN"
                 THEN cbState' = "HALF_OPEN" /\ successCount' = 0 /\ okRun' = 0
                 ELSE UNCHANGED <<cbState, successCount, okRun>>
            /\ callPc' = [callPc EXCEPT ![c] = "racing"]
            /\ callStart' = [callStart EXCEPT ![c] = now]
            /\ callResult' = [callResult EXCEPT ![c] = "none"]
  /\ UNCHANGED <<failureCount, nextAttempt, cbOptions, streak>>

\* execute(fn) with the OPEN test widened to every state but CLOSED
execute_rearming(c) ==
  /\ callPc[c] = "idle"
  /\ IF CbBlocked
       THEN /\ callResult' = [callResult EXCEPT ![c] = "blocked"]
            /\ UNCHANGED <<cbState, successCount, callPc, callStart, okRun>>
       ELSE /\ IF cbState # "CLOSED"
                 THEN cbState' = "HALF_OPEN" /\ successCount' = 0 /\ okRun' = 0
                 ELSE UNCHANGED <<cbState, successCount, okRun>>
            /\ callPc' = [callPc EXCEPT ![c] = "racing"]
            /\ callStart' = [callStart EXCEPT ![c] = now]
            /\ callResult' = [callResult EXCEPT ![c] = "none"]
  /\ UNCHANGED <<now, failureCount, nextAttempt, cbOptions, streak>>
  /\ UNCHANGED notCb

\* execute(fn), up to its await: the OPEN check, then fn() and the timer start
execute_counting(c) ==
  /\ callPc[c] = "idle"
  /\ IF CbBlocked
       THEN /\ callResult' = [callResult EXCEPT ![c] = "blocked"]
            /\ failureCount' = failureCount + 1
            /\ UNCHANGED <<cbState, successCount, callPc, callStart, okRun>>
       ELSE /\ IF cbState = "OPEN"
                 THEN cbState' = "HALF_OPEN" /\ successCount' = 0 /\ okRun' = 0
                 ELSE UNCHANGED <<cbState, successCount, okRun>>
            /\ callPc' = [callPc EXCEPT ![c] = "racing"]
            /\ callStart' = [callStart EXCEPT ![c] = now]
            /\ callResult' = [callResult EXCEPT ![c] = "none"]
            /\ UNCHANGED failureCount
  /\ UNCHANGED <<now, nextAttempt, cbOptions, streak>>
  /\ UNCHANGED notCb

execute(c) == cbExecute(c) /\ UNCHANGED now /\ UNCHANGED notCb

\* fn() resolves before the timer: the race resolves, onSuccess(), return
cbResolves(c) ==
  /\ callPc[c] = "racing"
  /\ onSuccess
  /\ callPc' = [callPc EXCEPT ![c] = "idle"]
  /\ callStart' = [callStart EXCEPT ![c] = 0]
  /\ callResult' = [callResult EXCEPT ![c] = "ok"]
  /\ streak' = 0
  /\ okRun' = IF cbState = "HALF_OPEN" THEN okRun + 1 ELSE okRun
  /\ UNCHANGED cbOptions

fnResolves(c) == cbResolves(c) /\ UNCHANGED now /\ UNCHANGED notCb

\* fn() rejects before the timer: catch, onFailure(), rethrow
cbRejects(c) ==
  /\ callPc[c] = "racing"
  /\ onFailure
  /\ callPc' = [callPc EXCEPT ![c] = "idle"]
  /\ callStart' = [callStart EXCEPT ![c] = 0]
  /\ callResult' = [callResult EXCEPT ![c] = "error"]
  /\ streak' = streak + 1
  /\ okRun' = 0
  /\ UNCHANGED cbOptions

fnRejects(c) == cbRejects(c) /\ UNCHANGED now /\ UNCHANGED notCb

\* the setTimeout of the race fires first: catch, onFailure(), rethrow.
\* Nothing cancels fn(): it keeps running after execute() has rejected.
cbTimerFires(c) ==
  /\ callPc[c] = "racing"
  /\ now >= callStart[c] + cbOptions.timeout
  /\ onFailure
  /\ callPc' = [callPc EXCEPT ![c] = "late"]
  /\ callStart' = [callStart EXCEPT ![c] = 0]
  /\ callResult' = [callResult EXCEPT ![c] = "timeout"]
  /\ streak' = streak + 1
  /\ okRun' = 0
  /\ UNCHANGED cbOptions

timerFires(c) == cbTimerFires(c) /\ UNCHANGED now /\ UNCHANGED notCb

\* fn() settles after the race was already lost: nobody listens any more
cbSettlesLate(c) ==
  /\ callPc[c] = "late"
  /\ callPc' = [callPc EXCEPT ![c] = "idle"]
  /\ UNCHANGED <<cbState, failureCount, successCount, nextAttempt,
                 cbOptions, callStart, callResult, streak, okRun>>

fnSettlesLate(c) == cbSettlesLate(c) /\ UNCHANGED now /\ UNCHANGED notCb

cbReset_keeping ==
  /\ cbState' = "CLOSED"
  /\ successCount' = 0
  /\ streak' = 0
  /\ okRun' = 0
  /\ UNCHANGED <<now, failureCount, nextAttempt, cbOptions, callPc, callStart,
                 callResult>>
  /\ UNCHANGED notCb

\* reset()
cbReset ==
  /\ cbState' = "CLOSED"
  /\ failureCount' = 0
  /\ successCount' = 0
  /\ streak' = 0
  /\ okRun' = 0
  /\ UNCHANGED <<now, nextAttempt, cbOptions, callPc, callStart, callResult>>
  /\ UNCHANGED notCb

\* A dependency that recovers: until the clock reads MaxNow wrapped calls
\* may fail or time out, from then on every wrapped call succeeds before its
\* timer.  The clock runs on to the end of the last cooldown.
Unhealthy == now < MaxNow

TickOn ==
  /\ now >= MaxNow
  /\ now < nextAttempt
  /\ now' = now + 1
  /\ UNCHANGED <<cbVars, rlVars, cacheVars, rtVars, lgVars, hcVars, heVars, fbVars>>

RecoveryNext ==
  \/ Tick
  \/ TickOn
  \/ \E c \in Calls : execute(c)
  \/ \E c \in Calls : fnResolves(c)
  \/ \E c \in Calls : Unhealthy /\ fnRejects(c)
  \/ \E c \in Calls : Unhealthy /\ timerFires(c)
  \/ \E c \in Calls : fnSettlesLate(c)
  \/ cbReset

CbNext ==
  \/ Tick
  \/ \E c \in Calls : execute(c)
  \/ \E c \in Calls : fnResolves(c)
  \/ \E c \in Calls : fnRejects(c)
  \/ \E c \in Calls : timerFires(c)
  \/ \E c \in Calls : fnSettlesLate(c)
  \/ cbReset


(***************************************************************************)
(* RateLimiter                                                             *)
(***************************************************************************)
RlOptionSets ==
  [maxTokens      : 1..MaxTokensOption,
   refillRate     : 1..MaxRefillRate,
   refillInterval : 1..MaxRefillInterval]

\* new RateLimiter(name, options)
RlNew(options) ==
  /\ rlOptions = options
  /\ tokens = options.maxTokens
  /\ lastRefill = now
  /\ rlPc = [p \in Acquirers |-> "idle"]
  /\ rlWant = [p \in Acquirers |-> 0]
  /\ rlWake = [p \in Acquirers |-> 0]
  /\ rlGrant = [n |-> 0, found |-> 0]

RlInit == \E options \in RlOptionSets : RlNew(options)

\* a limiter nobody calls
RlAtRest == RlNew([maxTokens |-> 1, refillRate |-> 1, refillInterval |-> 1])

Min(a, b) == IF a <= b THEN a ELSE b

\* Math.ceil(a / b) for a >= 0, b > 0
CeilDiv(a, b) == (a + b - 1) \div b

intervalsElapsed_started == CeilDiv(now - lastRefill, rlOptions.refillInterval)

\* refill(): the value of this.tokens and this.lastRefill after it
intervalsElapsed == (now - lastRefill) \div rlOptions.refillInterval

refilledTokens ==
  IF intervalsElapsed > 0
    THEN Min(tokens + intervalsElapsed * rlOptions.refillRate, rlOptions.maxTokens)
    ELSE tokens

refilledAt == IF intervalsElapsed > 0 THEN now ELSE lastRefill

\* the amounts a caller asks for: what the bucket can hold
Amounts == 1..rlOptions.maxTokens

\* acquire(n), up to its return or its await
rlAcquire(p, n) ==
  /\ rlPc[p] = "idle"
  /\ lastRefill' = refilledAt
  /\ IF refilledTokens >= n
       THEN /\ tokens' = refilledTokens - n
            /\ rlGrant' = [n |-> n, found |-> refilledTokens]
            /\ UNCHANGED <<rlPc, rlWant, rlWake>>
       ELSE /\ tokens' = refilledTokens
            /\ rlPc' = [rlPc EXCEPT ![p] = "waiting"]
            /\ rlWant' = [rlWant EXCEPT ![p] = n]
            /\ rlWake' = [rlWake EXCEPT ![p] =
                 now + CeilDiv(n - refilledTokens, rlOptions.refillRate)
                         * rlOptions.refillInterval]
            /\ UNCHANGED rlGrant
  /\ UNCHANGED rlOptions

acquire(p, n) == rlAcquire(p, n) /\ UNCHANGED now /\ UNCHANGED notRl

\* acquire(n), after its wait: refill() and the deduction, with no check
rlResumes(p) ==
  /\ rlPc[p] = "waiting"
  /\ now >= rlWake[p]
  /\ lastRefill' = refilledAt
  /\ tokens' = refilledTokens - rlWant[p]
  /\ rlGrant' = [n |-> rlWant[p], found |-> refilledTokens]
  /\ rlPc' = [rlPc EXCEPT ![p] = "idle"]
  /\ rlWant' = [rlWant EXCEPT ![p] = 0]
  /\ rlWake' = [rlWake EXCEPT ![p] = 0]
  /\ UNCHANGED rlOptions

acquireResumes(p) == rlResumes(p) /\ UNCHANGED now /\ UNCHANGED notRl

\* tryAcquire(n)
tryAcquire(n) ==
  /\ lastRefill' = refilledAt
  /\ IF refilledTokens >= n
       THEN /\ tokens' = refilledTokens - n
            /\ rlGrant' = [n |-> n, found |-> refilledTokens]
       ELSE /\ tokens' = refilledTokens
            /\ UNCHANGED rlGrant
  /\ UNCHANGED <<now, rlOptions, rlPc, rlWant, rlWake>>
  /\ UNCHANGED notRl

\* getAvailableTokens()
getAvailableTokens ==
  /\ lastRefill' = refilledAt
  /\ tokens' = refilledTokens
  /\ UNCHANGED <<now, rlOptions, rlPc, rlWant, rlWake, rlGrant>>
  /\ UNCHANGED notRl

\* reset()
rlReset ==
  /\ tokens' = rlOptions.maxTokens
  /\ lastRefill' = now
  /\ UNCHANGED <<now, rlOptions, rlPc, rlWant, rlWake, rlGrant>>
  /\ UNCHANGED notRl

RlNext ==
  \/ Tick
  \/ \E p \in Acquirers : \E n \in Amounts : acquire(p, n)
  \/ \E p \in Acquirers : acquireResumes(p)
  \/ \E n \in Amounts : tryAcquire(n)
  \/ getAvailableTokens
  \/ rlReset


(***************************************************************************)
(* Cache                                                                   *)
(***************************************************************************)
\* the options of the constructor, in ticks and entries
CacheTtl == 2
CacheMaxSize == 2

\* lookup keys (the strings a and b, and null) and generateKey:
\* JSON.stringify, which quotes a string
Keys == {"a", "b", "null"}

generateKey(k) ==
  CASE k = "a" -> "\"a\""
    [] k = "b" -> "\"b\""
    [] k = "null" -> "null"

CacheKeys == {generateKey(k) : k \in Keys}

\* cached values; "null" is JavaScript's null, what get returns for a miss
Values == {"null", "v"}

\* the ttl argument: <<>> when omitted, <<t>> when passed
TtlArgs == {<<>>} \cup {<<t>> : t \in 0..MaxTtlArg}

\* `ttl || this.options.ttl`
effectiveTtl(t) == IF t = <<>> \/ t[1] = 0 THEN CacheTtl ELSE t[1]

\* a CacheEntry
Entry(v, t) == [value |-> v, expiresAt |-> now + effectiveTtl(t)]

\* when the ttl given to a set call will have elapsed (the default ttl of
\* the options when none is given)
dueOf(t) == now + (IF t = <<>> THEN CacheTtl ELSE t[1])

NoSet == [key |-> "", due |-> 0]

CacheInit ==
  /\ cache = <<>>
  /\ accessOrder = <<>>
  /\ last = [hit |-> FALSE, ret |-> "null", evicted |-> ""]
  /\ lastSet = NoSet
  /\ recent = <<>>

\* Map.delete, Map.set
MapDelete(m, ck) == [j \in DOMAIN m \ {ck} |-> m[j]]
MapSet(m, ck, e) == [j \in DOMAIN m \cup {ck} |-> IF j = ck THEN e ELSE m[j]]

\* accessOrder.filter(k => k !== cacheKey), and the same followed by push
Without(o, ck) == SelectSeq(o, LAMBDA x : x # ck)
MoveToEnd(o, ck) == Append(Without(o, ck), ck)

\* isExpired(entry)
isExpired(e) == now > e.expiresAt

\* evictOldest(): the key it shifts off accessOrder, and its effect
oldestKey(o) == Head(o)

evictedCache(m, o) == IF Len(o) = 0 THEN m ELSE MapDelete(m, oldestKey(o))
evictedOrder(o) == IF Len(o) = 0 THEN o ELSE Without(o, oldestKey(o))

\* set(): `this.cache.size >= this.options.maxSize && !this.cache.has(cacheKey)`
mustEvict_late(m, ck) ==
  Cardinality(DOMAIN m) > CacheMaxSize /\ ck \notin DOMAIN m

mustEvict(m, ck) ==
  Cardinality(DOMAIN m) >= CacheMaxSize /\ ck \notin DOMAIN m

\* set(key, value, ttl): the cache and the access order after it
setCache(m, o, ck, v, t) ==
  MapSet(IF mustEvict(m, ck) THEN evictedCache(m, o) ELSE m, ck, Entry(v, t))

setOrder(m, o, ck) ==
  MoveToEnd(IF mustEvict(m, ck) THEN evictedOrder(o) ELSE o, ck)

\* set(): the key its evictOldest() logs as evicted, "" if none
evictedKey(m, o, ck) ==
  IF mustEvict(m, ck) /\ Len(o) > 0 THEN oldestKey(o) ELSE ""

\* get(key): whether it hits, what it returns, the cache and order after it
getHits(m, ck) == ck \in DOMAIN m /\ ~isExpired(m[ck])

getReturns(m, ck) == IF getHits(m, ck) THEN m[ck].value ELSE "null"

getCache(m, ck) ==
  IF ck \in DOMAIN m /\ isExpired(m[ck]) THEN MapDelete(m, ck) ELSE m

getOrder_fifo(m, o, ck) ==
  IF ck \in DOMAIN m /\ isExpired(m[ck]) THEN Without(o, ck) ELSE o

getOrder(m, o, ck) ==
  IF ck \notin DOMAIN m THEN o
  ELSE IF isExpired(m[ck]) THEN Without(o, ck)
  ELSE MoveToEnd(o, ck)

\* what a call of the API leaves in the history variables: what it returned
\* (get) or logged as evicted (set), the latest set call while its entry is
\* stored, and the stored keys in the order of their latest get hit or set
Returned(h, r, ev) ==
  last' = [hit |-> h, ret |-> r, evicted |-> ev]

SetCalled(ck, t) == lastSet' = [key |-> ck, due |-> dueOf(t)]

SetKept == lastSet' = IF lastSet.key \in DOMAIN cache' THEN lastSet ELSE NoSet

\* a set made inside fetchWithCache overwrites the entry of its key
SetOver(ck) ==
  lastSet' = IF lastSet.key \in DOMAIN cache' \ {ck} THEN lastSet ELSE NoSet

Stored(r) == SelectSeq(r, LAMBDA x : x \in DOMAIN cache')

Used(ck) == recent' = Stored(MoveToEnd(recent, ck))

NotUsed == recent' = Stored(recent)

\* a call by task self changed the cache under the fetchWithCache calls of
\* the other tasks that wait for their producer
Disturbs(self) ==
  fDirty' = [q \in Fetchers |->
               IF q = self THEN FALSE
               ELSE IF fPc[q] = "fetching"
                       /\ <<cache', accessOrder'>> # <<cache, accessOrder>>
                      THEN TRUE ELSE fDirty[q]]

\* cache.get(key)
cacheGet(k) ==
  LET ck == generateKey(k) IN
  /\ cache' = getCache(cache, ck)
  /\ accessOrder' = getOrder(cache, accessOrder, ck)
  /\ Returned(getHits(cache, ck), getReturns(cache, ck), "")
  /\ SetKept
  /\ IF getHits(cache, ck) THEN Used(ck) ELSE NotUsed
  /\ Disturbs(0)
  /\ UNCHANGED <<now, fetchVars>>
  /\ UNCHANGED notCache

\* cache.set(key, value, ttl)
cacheSet(k, v, t) ==
  LET ck == generateKey(k) IN
  /\ cache' = setCache(cache, accessOrder, ck, v, t)
  /\ accessOrder' = setOrder(cache, accessOrder, ck)
  /\ Returned(FALSE, "null", evictedKey(cache, accessOrder, ck))
  /\ SetCalled(ck, t)
  /\ Used(ck)
  /\ Disturbs(0)
  /\ UNCHANGED <<now, fetchVars>>
  /\ UNCHANGED notCache

\* cache.delete(key)
cacheDelete(k) ==
  LET ck == generateKey(k) IN
  /\ cache' = MapDelete(cache, ck)
  /\ accessOrder' = Without(accessOrder, ck)
  /\ Returned(FALSE, "null", "")
  /\ SetKept
  /\ NotUsed
  /\ Disturbs(0)
  /\ UNCHANGED <<now, fetchVars>>
  /\ UNCHANGED notCache

\* cache.clear()
cacheClear ==
  /\ cache' = <<>>
  /\ accessOrder' = <<>>
  /\ Returned(FALSE, "null", "")
  /\ SetKept
  /\ NotUsed
  /\ Disturbs(0)
  /\ UNCHANGED <<now, fetchVars>>
  /\ UNCHANGED notCache

\* cache.cleanup(), also run by the setInterval at the end of the file
cacheCleanup ==
  LET dead == {j \in DOMAIN cache : now > cache[j].expiresAt} IN
  /\ cache' = [j \in DOMAIN cache \ dead |-> cache[j]]
  /\ accessOrder' = SelectSeq(accessOrder, LAMBDA x : x \notin dead)
  /\ Returned(FALSE, "null", "")
  /\ SetKept
  /\ NotUsed
  /\ Disturbs(0)
  /\ UNCHANGED <<now, fetchVars>>
  /\ UNCHANGED notCache

CacheNext ==
  \/ Tick
  \/ \E k \in Keys : cacheGet(k)
  \/ \E k \in Keys : \E v \in Values : \E t \in TtlArgs : cacheSet(k, v, t)
  \/ \E k \in Keys : cacheDelete(k)
  \/ cacheClear
  \/ cacheCleanup

(***************************************************************************)
(* fetchWithCache                                                          *)
(***************************************************************************)
NoArg == [key |-> "a", ttl |-> <<>>]

\* how a call ended: by a hit, by storing the producer's value, or by the
\* producer's error (then with the caller's two flags)
Out(kind, v) == [kind |-> kind, value |-> v, touched |-> FALSE, dirty |-> FALSE]

NoOut == Out("none", "null")

FetchInit ==
  /\ fPc = [p \in Fetchers |-> "idle"]
  /\ fArg = [p \in Fetchers |-> NoArg]
  /\ fOut = NoOut
  /\ fTouched = [p \in Fetchers |-> FALSE]
  /\ fDirty = [p \in Fetchers |-> FALSE]

\* `cached !== null`
isCached(r) == r # "null"

\* fetchWithCache(cacheKey, fetcher, {ttl}), up to its return or its await:
\* cache.get, then the cached value or the call of fetcher
fetchWithCache(p, k, t) ==
  LET ck == generateKey(k)
      cached == getReturns(cache, ck) IN
  /\ fPc[p] = "idle"
  /\ cache' = getCache(cache, ck)
  /\ accessOrder' = getOrder(cache, accessOrder, ck)
  /\ SetKept
  /\ IF getHits(cache, ck) THEN Used(ck) ELSE NotUsed
  /\ IF isCached(cached)
       THEN /\ fOut' = Out("hit", cached)
            /\ UNCHANGED <<fPc, fArg, fTouched>>
       ELSE /\ fPc' = [fPc EXCEPT ![p] = "fetching"]
            /\ fArg' = [fArg EXCEPT ![p] = [key |-> k, ttl |-> t]]
            /\ fOut' = NoOut
            /\ fTouched' = [fTouched EXCEPT ![p] =
                 <<cache', accessOrder'>> # <<cache, accessOrder>>]
  /\ Disturbs(p)
  /\ UNCHANGED <<now, last>>
  /\ UNCHANGED notCache

\* fetcher() resolves with v: cache.set, return
fetcherResolves(p, v) ==
  LET ck == generateKey(fArg[p].key) IN
  /\ fPc[p] = "fetching"
  /\ cache' = setCache(cache, accessOrder, ck, v, fArg[p].ttl)
  /\ accessOrder' = setOrder(cache, accessOrder, ck)
  /\ SetOver(ck)
  /\ Used(ck)
  /\ fPc' = [fPc EXCEPT ![p] = "idle"]
  /\ fArg' = [fArg EXCEPT ![p] = NoArg]
  /\ fOut' = Out("stored", v)
  /\ fTouched' = [fTouched EXCEPT ![p] = FALSE]
  /\ Disturbs(p)
  /\ UNCHANGED <<now, last>>
  /\ UNCHANGED notCache

\* fetcher() rejects: nothing catches, the rejection is the caller's
fetcherRejects_caching(p) ==
  LET ck == generateKey(fArg[p].key) IN
  /\ fPc[p] = "fetching"
  /\ cache' = setCache(cache, accessOrder, ck, "null", fArg[p].ttl)
  /\ accessOrder' = setOrder(cache, accessOrder, ck)
  /\ SetOver(ck)
  /\ Used(ck)
  /\ fPc' = [fPc EXCEPT ![p] = "idle"]
  /\ fArg' = [fArg EXCEPT ![p] = NoArg]
  /\ fOut' = [Out("error", "null") EXCEPT !.touched = fTouched[p], !.dirty = fDirty[p]]
  /\ fTouched' = [fTouched EXCEPT ![p] = FALSE]
  /\ Disturbs(p)
  /\ UNCHANGED <<now, last>>
  /\ UNCHANGED notCache

fetcherRejects(p) ==
  /\ fPc[p] = "fetching"
  /\ fPc' = [fPc EXCEPT ![p] = "idle"]
  /\ fArg' = [fArg EXCEPT ![p] = NoArg]
  /\ fOut' = [Out("error", "null") EXCEPT !.touched = fTouched[p], !.dirty = fDirty[p]]
  /\ fTouched' = [fTouched EXCEPT ![p] = FALSE]
  /\ fDirty' = [fDirty EXCEPT ![p] = FALSE]
  /\ UNCHANGED <<now, cache, accessOrder, last, lastSet, recent>>
  /\ UNCHANGED notCache

\* the tasks of the application: they reach the cache through
\* fetchWithCache, beside the cleanup timer and a manual clear()
FetchNext ==
  \/ Tick
  \/ cacheCleanup
  \/ cacheClear
  \/ \E p \in Fetchers : \E k \in Keys : \E t \in TtlArgs : fetchWithCache(p, k, t)
  \/ \E p \in Fetchers : \E v \in Values : fetcherResolves(p, v)
  \/ \E p \in Fetchers : fetcherRejects(p)

(***************************************************************************)
(* fetchWithRetry                                                          *)
(***************************************************************************)
\* DEFAULT_OPTIONS.retryableStatuses and DEFAULT_OPTIONS.backoffMultiplier
RetryableStatuses == {408, 429, 500, 502, 503, 504}
BackoffMultiplier == 2

\* opts, with delays in ticks.  With maxRetries >= 0 the loop is left by a
\* return or a throw, never by its condition.
RtOptionSets ==
  [maxRetries        : 0..MaxRetries,
   initialDelay      : 0..MaxInitialDelay,
   maxDelay          : {MaxDelay},
   retryableStatuses : {RetryableStatuses}]

\* what an attempt can come back with: the status of a response, no status
\* being 0, or an error with its name, its message and its status
Statuses == {200, 404, 503}

NoError == [name |-> "", message |-> "", status |-> 0]

Errors ==
  {[name |-> "TypeError",  message |-> "fetch failed",       status |-> 0],
   [name |-> "TypeError",  message |-> "x is not a function", status |-> 0],
   [name |-> "AbortError", message |-> "aborted",            status |-> 0],
   [name |-> "Error",      message |-> "network timeout",    status |-> 0],
   [name |-> "Error",      message |-> "boom",               status |-> 0],
   [name |-> "Error",      message |-> "unavailable",        status |-> 503],
   [name |-> "Error",      message |-> "not found",          status |-> 404]}

\* message.includes(word), on the messages above
includes(message, word) ==
  \/ word = "fetch" /\ message = "fetch failed"
  \/ word = "timeout" /\ message = "network timeout"

\* response.ok
ok(status) == 200 <= status /\ status <= 299

isRetryableError_always(error, options) == TRUE

isRetryableError(error, options) ==
  IF error.name = "TypeError" /\ includes(error.message, "fetch") THEN TRUE
  ELSE IF error.name = "AbortError" \/ includes(error.message, "timeout") THEN TRUE
  ELSE IF error.status # 0 /\ error.status \in options.retryableStatuses THEN TRUE
  ELSE FALSE

RECURSIVE pow(_, _)
pow(b, e) == IF e = 0 THEN 1 ELSE b * pow(b, e - 1)

\* calculateDelay(attempt, options): the delays jitter can give, in ticks
calculateDelay(attempt, options) ==
  LET exponentialDelay == options.initialDelay * pow(BackoffMultiplier, attempt - 1) IN
  {Min(exponentialDelay + jitter, options.maxDelay) :
     jitter \in 0..((3 * exponentialDelay) \div 10)}

NoResult == [kind |-> "none", status |-> 0, error |-> NoError]
returned(status) == [kind |-> "returned", status |-> status, error |-> NoError]
thrown(error) == [kind |-> "thrown", status |-> 0, error |-> error]

RtInit ==
  /\ rtPc = [r \in Calls |-> "idle"]
  /\ rtAttempt = [r \in Calls |-> 0]
  /\ rtOptions = [r \in Calls |->
       [maxRetries |-> 0, initialDelay |-> 0, maxDelay |-> MaxDelay,
        retryableStatuses |-> RetryableStatuses]]
  /\ rtWake = [r \in Calls |-> 0]
  /\ rtOut = [r \in Calls |-> NoResult]
  /\ rtCalls = [r \in Calls |-> 0]
  /\ rtFailed = [r \in Calls |-> 0]
  /\ rtOnRetry = [r \in Calls |-> 0]
  /\ rtWaits = [r \in Calls |-> 0]

\* the call ends: return or throw
rtEnds(r, out) ==
  /\ rtPc' = [rtPc EXCEPT ![r] = "idle"]
  /\ rtOut' = [rtOut EXCEPT ![r] = out]
  /\ UNCHANGED <<rtAttempt, rtWake, rtOnRetry, rtWaits>>

rtCatch_early(r, error) ==
  IF rtAttempt[r] >= rtOptions[r].maxRetries THEN rtEnds(r, thrown(error))
  ELSE IF ~isRetryableError(error, rtOptions[r]) THEN rtEnds(r, thrown(error))
  ELSE \E delayMs \in calculateDelay(rtAttempt[r], rtOptions[r]) :
         /\ rtOnRetry' = [rtOnRetry EXCEPT ![r] = @ + 1]
         /\ rtWaits' = [rtWaits EXCEPT ![r] = @ + 1]
         /\ rtWake' = [rtWake EXCEPT ![r] = now + delayMs]
         /\ rtPc' = [rtPc EXCEPT ![r] = "waiting"]
         /\ UNCHANGED <<rtAttempt, rtOut>>

\* the catch block
rtCatch(r, error) ==
  IF rtAttempt[r] > rtOptions[r].maxRetries THEN rtEnds(r, thrown(error))
  ELSE IF ~isRetryableError(error, rtOptions[r]) THEN rtEnds(r, thrown(error))
  ELSE \E delayMs \in calculateDelay(rtAttempt[r], rtOptions[r]) :
         /\ rtOnRetry' = [rtOnRetry EXCEPT ![r] = @ + 1]
         /\ rtWaits' = [rtWaits EXCEPT ![r] = @ + 1]
         /\ rtWake' = [rtWake EXCEPT ![r] = now + delayMs]
         /\ rtPc' = [rtPc EXCEPT ![r] = "waiting"]
         /\ UNCHANGED <<rtAttempt, rtOut>>

\* fetchWithRetry(url, init, options), up to the await of its first attempt
rtStarts(r, options) ==
  /\ rtPc[r] = "idle"
  /\ rtOptions' = [rtOptions EXCEPT ![r] = options]
  /\ rtAttempt' = [rtAttempt EXCEPT ![r] = 1]
  /\ rtPc' = [rtPc EXCEPT ![r] = "attempting"]
  /\ rtOut' = [rtOut EXCEPT ![r] = NoResult]
  /\ rtCalls' = [rtCalls EXCEPT ![r] = 1]
  /\ rtFailed' = [rtFailed EXCEPT ![r] = 0]
  /\ rtOnRetry' = [rtOnRetry EXCEPT ![r] = 0]
  /\ rtWaits' = [rtWaits EXCEPT ![r] = 0]
  /\ rtWake' = [rtWake EXCEPT ![r] = 0]

rtResponds_retrying(r, status) ==
  /\ rtPc[r] = "attempting"
  /\ IF ok(status) THEN rtEnds(r, returned(status))
     ELSE rtCatch(r, [name |-> "Error", message |-> "HTTP", status |-> status])
  /\ rtFailed' = [rtFailed EXCEPT ![r] =
       IF ~ok(status) /\ status \in RetryableStatuses THEN @ + 1 ELSE @]
  /\ UNCHANGED <<rtOptions, rtCalls>>

\* the attempt resolves with a response
rtResponds(r, status) ==
  /\ rtPc[r] = "attempting"
  /\ IF ok(status) THEN rtEnds(r, returned(status))
     ELSE IF status \notin rtOptions[r].retryableStatuses THEN rtEnds(r, returned(status))
     ELSE rtCatch(r, [name |-> "Error", message |-> "HTTP", status |-> status])
  /\ rtFailed' = [rtFailed EXCEPT ![r] =
       IF ~ok(status) /\ status \in RetryableStatuses THEN @ + 1 ELSE @]
  /\ UNCHANGED <<rtOptions, rtCalls>>

\* the attempt rejects with an error
rtThrows(r, error) ==
  /\ rtPc[r] = "attempting"
  /\ rtCatch(r, error)
  /\ rtFailed' = [rtFailed EXCEPT ![r] =
       IF \/ error.message \in {"fetch failed", "network timeout"}
          \/ error.name = "AbortError"
          \/ error.status \in RetryableStatuses
         THEN @ + 1 ELSE @]
  /\ UNCHANGED <<rtOptions, rtCalls>>

\* the delay is over: the next turn of the loop, up to the await of its attempt
rtDelayEnds(r) ==
  /\ rtPc[r] = "waiting"
  /\ now >= rtWake[r]
  /\ rtAttempt' = [rtAttempt EXCEPT ![r] = @ + 1]
  /\ rtPc' = [rtPc EXCEPT ![r] = "attempting"]
  /\ rtCalls' = [rtCalls EXCEPT ![r] = @ + 1]
  /\ rtWake' = [rtWake EXCEPT ![r] = 0]
  /\ UNCHANGED <<rtOptions, rtOut, rtFailed, rtOnRetry, rtWaits>>

\* one call of fetchWithRetry after the other: calls share no state
fetchWithRetry(options) == rtStarts(1, options) /\ UNCHANGED now /\ UNCHANGED notRt

attemptResponds(status) == rtResponds(1, status) /\ UNCHANGED now /\ UNCHANGED notRt

attemptThrows(error) == rtThrows(1, error) /\ UNCHANGED now /\ UNCHANGED notRt

delayEnds == rtDelayEnds(1) /\ UNCHANGED now /\ UNCHANGED notRt

RetryNext ==
  \/ Tick
  \/ \E options \in RtOptionSets : fetchWithRetry(options)
  \/ \E status \in Statuses : attemptResponds(status)
  \/ \E error \in Errors : attemptThrows(error)
  \/ delayEnds

(***************************************************************************)
(* The chain of the chat route:                                            *)
(*   await rateLimiter.acquire();                                          *)
(*   return breaker.execute(() => fetchWithRetry(...))                     *)
(* with a wrapped fetch that always fails with a network timeout.          *)
(***************************************************************************)
Callers == Calls \cap Acquirers

NetworkTimeout == [name |-> "Error", message |-> "network timeout", status |-> 0]

chainIdle(c) == rlPc[c] = "idle" /\ callPc[c] = "idle" /\ rtPc[c] = "idle"

chainExecutes_unguarded(c) ==
  /\ cbExecute(c)
  /\ \E options \in RtOptionSets : rtStarts(c, options)

\* breaker.execute(() => fetchWithRetry(...)): fn runs to the await of its
\* first attempt inside execute(), unless execute() throws before calling it
chainExecutes(c) ==
  /\ cbExecute(c)
  /\ IF CbBlocked
       THEN UNCHANGED rtVars
       ELSE \E options \in RtOptionSets : rtStarts(c, options)

\* the call: acquire() and, when it returns at once, execute()
chainCall(c) ==
  /\ chainIdle(c)
  /\ rlAcquire(c, 1)
  /\ IF refilledTokens >= 1
       THEN chainExecutes(c)
       ELSE UNCHANGED <<cbVars, rtVars>>
  /\ UNCHANGED <<now, cacheVars, lgVars, hcVars, heVars, fbVars>>

\* acquire() returns after its wait, then execute()
chainResumes(c) ==
  /\ rlResumes(c)
  /\ chainExecutes(c)
  /\ UNCHANGED <<now, cacheVars, lgVars, hcVars, heVars, fbVars>>

\* the attempt fails; when that ends fetchWithRetry, its rejection reaches
\* the race of execute(), which may have been lost to the timer already
chainThrows(c) ==
  /\ rtThrows(c, NetworkTimeout)
  /\ IF rtPc'[c] = "idle"
       THEN IF callPc[c] = "racing" THEN cbRejects(c) ELSE cbSettlesLate(c)
       ELSE UNCHANGED cbVars
  /\ UNCHANGED <<now, rlVars, cacheVars, lgVars, hcVars, heVars, fbVars>>

\* the delay of fetchWithRetry is over: its next attempt
chainDelayEnds(c) ==
  /\ rtDelayEnds(c)
  /\ UNCHANGED <<now, cbVars, rlVars, cacheVars, lgVars, hcVars, heVars, fbVars>>

ChainNext ==
  \/ Tick
  \/ \E c \in Callers : chainCall(c)
  \/ \E c \in Callers : chainResumes(c)
  \/ \E c \in Callers : chainThrows(c)
  \/ \E c \in Callers : chainDelayEnds(c)
  \/ \E c \in Callers : timerFires(c)

(***************************************************************************)
(* Logger.  One tick of the clock is the 250 ms unit of sleep().           *)
(***************************************************************************)
\* `Logger.consecutiveLambdaFailures >= 5`
LambdaFailureLimit == 5

\* process.env: the three AWS variables present or not, NODE_ENV, and the
\* values parsePositiveInt makes of AWS_LOG_LAMBDA_RETRIES and
\* AWS_LOG_LAMBDA_COOLDOWN_MS
LgEnvSets ==
  [configured  : BOOLEAN,
   development : BOOLEAN,
   maxAttempts : 1..MaxAttempts,
   cooldownMs  : 1..MaxCooldown]

LgNew(env) ==
  /\ consecutiveLambdaFailures = 0
  /\ lambdaDisabledUntil = 0
  /\ lgEnv = env
  /\ sendPc = [e \in Entries |-> "idle"]
  /\ sendAttempt = [e \in Entries |-> 0]
  /\ sendWake = [e \in Entries |-> 0]
  /\ sendResult = [e \in Entries |-> "none"]
  /\ logRaised = FALSE
  /\ logPrinted = FALSE
  /\ infoForwardedAt = -1

LgInit == \E env \in LgEnvSets : LgNew(env)

\* a process without the AWS variables: nothing is forwarded
LgAtRest ==
  LgNew([configured |-> FALSE, development |-> FALSE,
         maxAttempts |-> 1, cooldownMs |-> 1])

LogLevels == {"info", "warn", "error", "debug"}

\* what a caller passes as data: nothing, a plain object, a plain object
\* with an event_type of the client events, or an object JSON cannot take
\* (a cycle, a BigInt, a throwing toJSON)
DataKinds == {"undefined", "plain", "tagged", "circular"}

\* the one entry whose forwarding is followed: an info call of the
\* client-log endpoint with its event message and tagged data
ClientEvent(level, listed, data) == level = "info" /\ listed /\ data = "tagged"

\* JSON.stringify(data) throws
stringifyThrows(data) == data = "circular"

\* sleep(250 * attempt), in ticks
sleepTicks(attempt) == attempt

\* the end of sendToAwsLambda after its loop
sendFails ==
  IF consecutiveLambdaFailures + 1 >= LambdaFailureLimit
    THEN /\ lambdaDisabledUntil' = now + lgEnv.cooldownMs
         /\ consecutiveLambdaFailures' = 0
    ELSE /\ consecutiveLambdaFailures' = consecutiveLambdaFailures + 1
         /\ lambdaDisabledUntil' = lambdaDisabledUntil

\* sendToAwsLambda(entry), up to the await of its first POST
sendToAwsLambda(e) ==
  IF ~lgEnv.configured \/ now < lambdaDisabledUntil
    THEN UNCHANGED <<sendPc, sendAttempt>>
    ELSE /\ sendPc' = [sendPc EXCEPT ![e] = "posting"]
         /\ sendAttempt' = [sendAttempt EXCEPT ![e] = 1]

\* info / warn / error / debug: log(), which prints the entry with
\* JSON.stringify(data) and then starts sendToAwsLambda without awaiting it.
\* `listed` tells whether context.endpoint and message are those of the
\* client events; log() does not look at them.
log(e, level, listed, data) ==
  /\ sendPc[e] = "idle"
  /\ IF level = "debug" /\ ~lgEnv.development
       THEN /\ logRaised' = FALSE
            /\ logPrinted' = FALSE
            /\ UNCHANGED <<sendPc, sendAttempt>>
       ELSE IF data # "undefined" /\ stringifyThrows(data)
              THEN /\ logRaised' = TRUE
                   /\ logPrinted' = FALSE
                   /\ UNCHANGED <<sendPc, sendAttempt>>
              ELSE /\ logRaised' = FALSE
                   /\ logPrinted' = TRUE
                   /\ sendToAwsLambda(e)
  /\ infoForwardedAt' =
       IF ClientEvent(level, listed, data) /\ sendPc'[e] = "posting"
         THEN now ELSE infoForwardedAt
  /\ UNCHANGED <<consecutiveLambdaFailures, lambdaDisabledUntil, lgEnv,
                 sendWake, sendResult>>
  /\ UNCHANGED now
  /\ UNCHANGED notLg

\* what a POST can come to: a 2xx, another status below 500, a status from
\* 500 up, or a rejection (network error, AbortSignal.timeout)
PostOutcomes == {"ok", "4xx", "5xx", "throws"}

postSettles_retrying(e, outcome) ==
  /\ sendPc[e] = "posting"
  /\ IF outcome = "ok"
       THEN /\ consecutiveLambdaFailures' = 0
            /\ lambdaDisabledUntil' = 0
            /\ sendPc' = [sendPc EXCEPT ![e] = "idle"]
            /\ UNCHANGED sendWake
       ELSE IF sendAttempt[e] < lgEnv.maxAttempts /\ outcome \in {"4xx", "5xx", "throws"}
              THEN /\ sendPc' = [sendPc EXCEPT ![e] = "sleeping"]
                   /\ sendWake' = [sendWake EXCEPT ![e] = now + sleepTicks(sendAttempt[e])]
                   /\ UNCHANGED <<consecutiveLambdaFailures, lambdaDisabledUntil>>
              ELSE /\ sendFails
                   /\ sendPc' = [sendPc EXCEPT ![e] = "idle"]
                   /\ UNCHANGED sendWake
  /\ sendResult' = [sendResult EXCEPT ![e] = outcome]
  /\ UNCHANGED <<lgEnv, sendAttempt, logRaised, logPrinted, infoForwardedAt>>
  /\ UNCHANGED now
  /\ UNCHANGED notLg

\* the POST settles
postSettles(e, outcome) ==
  /\ sendPc[e] = "posting"
  /\ IF outcome = "ok"
       THEN /\ consecutiveLambdaFailures' = 0
            /\ lambdaDisabledUntil' = 0
            /\ sendPc' = [sendPc EXCEPT ![e] = "idle"]
            /\ UNCHANGED sendWake
       ELSE IF sendAttempt[e] < lgEnv.maxAttempts /\ outcome \in {"5xx", "throws"}
              THEN /\ sendPc' = [sendPc EXCEPT ![e] = "sleeping"]
                   /\ sendWake' = [sendWake EXCEPT ![e] = now + sleepTicks(sendAttempt[e])]
                   /\ UNCHANGED <<consecutiveLambdaFailures, lambdaDisabledUntil>>
              ELSE /\ sendFails
                   /\ sendPc' = [sendPc EXCEPT ![e] = "idle"]
                   /\ UNCHANGED sendWake
  /\ sendResult' = [sendResult EXCEPT ![e] = outcome]
  /\ UNCHANGED <<lgEnv, sendAttempt, logRaised, logPrinted, infoForwardedAt>>
  /\ UNCHANGED now
  /\ UNCHANGED notLg

\* the sleep is over: the next turn of the loop, up to the await of its POST
sleepEnds(e) ==
  /\ sendPc[e] = "sleeping"
  /\ now >= sendWake[e]
  /\ sendAttempt' = [sendAttempt EXCEPT ![e] = @ + 1]
  /\ sendPc' = [sendPc EXCEPT ![e] = "posting"]
  /\ sendWake' = [sendWake EXCEPT ![e] = 0]
  /\ UNCHANGED <<consecutiveLambdaFailures, lambdaDisabledUntil, lgEnv,
                 sendResult, logRaised, logPrinted, infoForwardedAt>>
  /\ UNCHANGED now
  /\ UNCHANGED notLg

LoggerNext ==
  \/ Tick
  \/ \E e \in Entries : \E level \in LogLevels : \E listed \in BOOLEAN :
       \E data \in DataKinds : log(e, level, listed, data)
  \/ \E e \in Entries : \E outcome \in PostOutcomes : postSettles(e, outcome)
  \/ \E e \in Entries : sleepEnds(e)

(***************************************************************************)
(* HealthChecker                                                           *)
(***************************************************************************)
HcOptionSets ==
  [interval           : 1..MaxHcInterval,
   timeout            : 1..MaxHcTimeout,
   unhealthyThreshold : 1..MaxUnhealthyThreshold,
   degradedThreshold  : 0..MaxDegradedThreshold]

\* HealthCheckResult, and null
NoCheck == [status |-> "none", latency |-> 0, timestamp |-> 0, error |-> FALSE]

HcNew(options) ==
  /\ hcStatus = "healthy"
  /\ consecutiveFailures = 0
  /\ lastCheck = NoCheck
  /\ intervalId = "null"
  /\ hcOptions = options
  /\ hcTimers = 0
  /\ hcNextFire = 0
  /\ hcTicks = 0
  /\ hcStopped = FALSE
  /\ probePc = [p \in Probes |-> "idle"]
  /\ probeStart = [p \in Probes |-> 0]

HcInit == \E options \in HcOptionSets : HcNew(options)

\* a checker nobody starts
HcAtRest ==
  HcNew([interval |-> 1, timeout |-> 1, unhealthyThreshold |-> 1,
         degradedThreshold |-> 0])

\* check(), up to its await: startTime, checkFn() and the timer of the race
hcCheck(p) ==
  /\ probePc[p] = "idle"
  /\ probePc' = [probePc EXCEPT ![p] = "racing"]
  /\ probeStart' = [probeStart EXCEPT ![p] = now]

check(p) ==
  /\ hcCheck(p)
  /\ UNCHANGED <<hcStatus, consecutiveFailures, lastCheck, intervalId, hcOptions,
                 hcTimers, hcNextFire, hcTicks, hcStopped>>
  /\ UNCHANGED now
  /\ UNCHANGED notHc

\* the status after a probe that took `latency`
passedStatus(latency) ==
  IF latency > hcOptions.degradedThreshold THEN "degraded" ELSE "healthy"

failedStatus_late(failures) ==
  IF failures > hcOptions.unhealthyThreshold THEN "unhealthy" ELSE "degraded"

\* the status after the failures-th failed probe in a row
failedStatus(failures) ==
  IF failures >= hcOptions.unhealthyThreshold THEN "unhealthy" ELSE "degraded"

\* check() after its await, the try block: checkFn() resolved first
probeResolves(p) ==
  /\ probePc[p] = "racing"
  /\ consecutiveFailures' = 0
  /\ hcStatus' = passedStatus(now - probeStart[p])
  /\ lastCheck' = [status |-> passedStatus(now - probeStart[p]),
                   latency |-> now - probeStart[p],
                   timestamp |-> now, error |-> FALSE]
  /\ probePc' = [probePc EXCEPT ![p] = "idle"]
  /\ probeStart' = [probeStart EXCEPT ![p] = 0]
  /\ UNCHANGED <<intervalId, hcOptions, hcTimers, hcNextFire, hcTicks, hcStopped>>
  /\ UNCHANGED now
  /\ UNCHANGED notHc

\* check() after its await, the catch block
hcCatch(p) ==
  /\ consecutiveFailures < MaxHcFailures
  /\ consecutiveFailures' = consecutiveFailures + 1
  /\ hcStatus' = failedStatus(consecutiveFailures + 1)
  /\ lastCheck' = [status |-> failedStatus(consecutiveFailures + 1),
                   latency |-> now - probeStart[p],
                   timestamp |-> now, error |-> TRUE]
  /\ probePc' = [probePc EXCEPT ![p] = "idle"]
  /\ probeStart' = [probeStart EXCEPT ![p] = 0]
  /\ UNCHANGED <<intervalId, hcOptions, hcTimers, hcNextFire, hcTicks, hcStopped>>

\* checkFn() rejected with an Error
probeRejects(p) ==
  /\ probePc[p] = "racing"
  /\ hcCatch(p)
  /\ UNCHANGED now
  /\ UNCHANGED notHc

\* the setTimeout of the race fired first; checkFn() goes on unheard
probeTimesOut(p) ==
  /\ probePc[p] = "racing"
  /\ now >= probeStart[p] + hcOptions.timeout
  /\ hcCatch(p)
  /\ UNCHANGED now
  /\ UNCHANGED notHc

start_again ==
  /\ \E p \in Probes : hcCheck(p)
  /\ intervalId' = "timer"
  /\ hcTimers' = hcTimers + 1
  /\ hcNextFire' = now + hcOptions.interval
  /\ hcTicks' = 0
  /\ UNCHANGED <<hcStatus, consecutiveFailures, lastCheck, hcOptions, hcStopped>>
  /\ UNCHANGED now
  /\ UNCHANGED notHc

\* start()
start ==
  /\ IF intervalId # "null"
       THEN UNCHANGED <<intervalId, hcTimers, hcNextFire, hcTicks, probePc, probeStart>>
       ELSE /\ \E p \in Probes : hcCheck(p)
            /\ intervalId' = "timer"
            /\ hcTimers' = hcTimers + 1
            /\ hcNextFire' = now + hcOptions.interval
            /\ hcTicks' = 0
  /\ UNCHANGED <<hcStatus, consecutiveFailures, lastCheck, hcOptions, hcStopped>>
  /\ UNCHANGED now
  /\ UNCHANGED notHc

\* the callback of setInterval
intervalFires ==
  /\ hcTimers > 0
  /\ now >= hcNextFire
  /\ \E p \in Probes : hcCheck(p)
  /\ hcNextFire' = hcNextFire + hcOptions.interval
  /\ hcTicks' = hcTicks + 1
  /\ UNCHANGED <<hcStatus, consecutiveFailures, lastCheck, intervalId, hcOptions,
                 hcTimers, hcStopped>>
  /\ UNCHANGED now
  /\ UNCHANGED notHc

\* stop()
stop ==
  /\ IF intervalId # "null"
       THEN /\ hcTimers' = hcTimers - 1
            /\ intervalId' = "null"
            /\ hcStopped' = TRUE
       ELSE UNCHANGED <<hcTimers, intervalId, hcStopped>>
  /\ UNCHANGED <<hcStatus, consecutiveFailures, lastCheck, hcOptions, hcNextFire,
                 hcTicks, probePc, probeStart>>
  /\ UNCHANGED now
  /\ UNCHANGED notHc

HcNext ==
  \/ Tick
  \/ \E p \in Probes : check(p)
  \/ \E p \in Probes : probeResolves(p)
  \/ \E p \in Probes : probeRejects(p)
  \/ \E p \in Probes : probeTimesOut(p)
  \/ start
  \/ intervalFires
  \/ stop

C27_StartStopIdempotent ==
  /\ hcTimers = 0 /\ intervalId = "null"
  /\ [][/\ hcTimers' <= 1
        /\ (hcTimers' = 1) <=> (intervalId' # "null")
        /\ (start /\ intervalId # "null") => UNCHANGED hcVars
        /\ (stop /\ intervalId = "null") => UNCHANGED hcVars
        /\ (start /\ intervalId = "null")
             => /\ hcTimers' = 1
                /\ \E p \in Probes : probePc[p] = "idle" /\ probePc'[p] = "racing"
        /\ (stop /\ intervalId # "null") => hcTimers' = 0
        /\ intervalFires => intervalId # "null"]_vars

\* started, stopped, started again, and the new timer has fired
C27_Witness ==
  /\ hcStopped
  /\ intervalId = "timer"
  /\ hcTimers = 1
  /\ hcTicks >= 1

(***************************************************************************)
(* GET /api/health                                                         *)
(***************************************************************************)
Checkers == 1..MaxCheckers

\* "openai-chat", "openai-generate"
Breakers == 1..MaxBreakers

\* status of a checker's last result, "none" for a checker without one
CheckStatuses == {"none", "healthy", "degraded", "unhealthy"}

\* CircuitState, "null" for a name without a breaker
BreakerStates == {"null", "CLOSED", "OPEN", "HALF_OPEN"}

HeAtRest ==
  /\ healthStatuses = [k \in Checkers |-> "none"]
  /\ circuitBreakers = [b \in Breakers |-> "null"]
  /\ overallStatus = ""

\* what the registry and the breakers hold when the request arrives
HeInit ==
  /\ healthStatuses \in [Checkers -> CheckStatuses]
  /\ circuitBreakers \in [Breakers -> BreakerStates]
  /\ overallStatus = ""

hasUnhealthy == \E k \in Checkers : healthStatuses[k] = "unhealthy"

hasDegraded == \E k \in Checkers : healthStatuses[k] = "degraded"

hasOpenCircuit_tripped == \E b \in Breakers : circuitBreakers[b] \in {"OPEN", "HALF_OPEN"}

hasOpenCircuit == \E b \in Breakers : circuitBreakers[b] = "OPEN"

\* GET
GET ==
  /\ overallStatus' = IF hasUnhealthy \/ hasOpenCircuit THEN "unhealthy"
                      ELSE IF hasDegraded THEN "degraded"
                      ELSE "healthy"
  /\ UNCHANGED <<healthStatuses, circuitBreakers>>
  /\ UNCHANGED now
  /\ UNCHANGED notHe

HeNext == GET

\* C28: the reported status is unhealthy when a checker's last result is
\* unhealthy or a reported breaker is OPEN, otherwise degraded when a checker's
\* last result is degraded, otherwise healthy; breakers that are HALF_OPEN,
\* CLOSED or missing and checkers without a result weigh nothing.
C28_Aggregation ==
  overallStatus # ""
    => LET bad == {k \in Checkers : healthStatuses[k] = "unhealthy"}
           slow == {k \in Checkers : healthStatuses[k] = "degraded"}
           open == {b \in Breakers : circuitBreakers[b] = "OPEN"}
       IN  /\ (overallStatus = "unhealthy") <=> (bad # {} \/ open # {})
           /\ (overallStatus = "degraded") <=> (bad = {} /\ open = {} /\ slow # {})
           /\ (overallStatus = "healthy") <=> (bad = {} /\ open = {} /\ slow = {})

\* a HALF_OPEN breaker and a checker without a result, reported healthy
C28_Witness ==
  /\ overallStatus = "healthy"
  /\ \E b \in Breakers : circuitBreakers[b] = "HALF_OPEN"
  /\ \E k \in Checkers : healthStatuses[k] = "none"

(***************************************************************************)
(* fetchWithFallback                                                       *)
(***************************************************************************)
\* how a call ends: the kind ("returned" | "thrown") and whose outcome it is
NoFb == [kind |-> "none", from |-> ""]

FbAtRest ==
  /\ fbPc = "idle"
  /\ fbStart = 0
  /\ fbTimeout = 0
  /\ fbPrimaryRuns = FALSE
  /\ fbCalls = 0
  /\ fbOut = NoFb

\* options.timeout || 10000: 0 stands for a timeout left out
timeoutOf(t) == IF t = 0 THEN MaxFbTimeout + 1 ELSE t

\* fetchWithFallback(primary, fallback, {timeout: t}), up to its await
fetchWithFallback(t) ==
  /\ fbPc = "idle"
  /\ fbPc' = "racing"
  /\ fbStart' = now
  /\ fbTimeout' = timeoutOf(t)
  /\ fbPrimaryRuns' = TRUE
  /\ fbCalls' = 0
  /\ fbOut' = NoFb
  /\ UNCHANGED now
  /\ UNCHANGED notFb

\* primary() won the race
primaryResolves ==
  /\ fbPc = "racing"
  /\ fbPc' = "idle"
  /\ fbPrimaryRuns' = FALSE
  /\ fbOut' = [kind |-> "returned", from |-> "primary"]
  /\ UNCHANGED <<fbStart, fbTimeout, fbCalls>>
  /\ UNCHANGED now
  /\ UNCHANGED notFb

fbCatch_rethrowing ==
  /\ fbPc' = "idle"
  /\ fbOut' = [kind |-> "thrown", from |-> "primary"]
  /\ UNCHANGED <<fbStart, fbTimeout, fbCalls>>

\* the catch block: return fallback()
fbCatch ==
  /\ fbPc' = "fallback"
  /\ fbCalls' = fbCalls + 1
  /\ UNCHANGED <<fbStart, fbTimeout, fbOut>>

\* primary() threw or rejected with an Error
primaryRejects ==
  /\ fbPc = "racing"
  /\ fbPrimaryRuns' = FALSE
  /\ fbCatch
  /\ UNCHANGED now
  /\ UNCHANGED notFb

\* the timer of the race rejected first; primary() goes on unheard
primaryTimesOut ==
  /\ fbPc = "racing"
  /\ now >= fbStart + fbTimeout
  /\ UNCHANGED fbPrimaryRuns
  /\ fbCatch
  /\ UNCHANGED now
  /\ UNCHANGED notFb

\* primary() settles after the race was lost
primarySettlesLate ==
  /\ fbPc # "racing"
  /\ fbPrimaryRuns
  /\ fbPrimaryRuns' = FALSE
  /\ UNCHANGED <<fbPc, fbStart, fbTimeout, fbCalls, fbOut>>
  /\ UNCHANGED now
  /\ UNCHANGED notFb

fallbackResolves ==
  /\ fbPc = "fallback"
  /\ fbPc' = "idle"
  /\ fbOut' = [kind |-> "returned", from |-> "fallback"]
  /\ UNCHANGED <<fbStart, fbTimeout, fbPrimaryRuns, fbCalls>>
  /\ UNCHANGED now
  /\ UNCHANGED notFb

fallbackRejects ==
  /\ fbPc = "fallback"
  /\ fbPc' = "idle"
  /\ fbOut' = [kind |-> "thrown", from |-> "fallback"]
  /\ UNCHANGED <<fbStart, fbTimeout, fbPrimaryRuns, fbCalls>>
  /\ UNCHANGED now
  /\ UNCHANGED notFb

FbNext ==
  \/ Tick
  \/ \E t \in 0..MaxFbTimeout : fetchWithFallback(t)
  \/ primaryResolves
  \/ primaryRejects
  \/ primaryTimesOut
  \/ primarySettlesLate
  \/ fallbackResolves
  \/ fallbackRejects

RestAtRest == HeAtRest /\ FbAtRest

(***************************************************************************)
(* Specifications                                                          *)
(***************************************************************************)
Init ==
  /\ now = 0
  /\ CbInit
  /\ RlInit
  /\ CacheInit
  /\ FetchInit
  /\ RtInit
  /\ LgInit
  /\ HcInit
  /\ RestAtRest

Next ==
  \/ CbNext \/ RlNext \/ CacheNext \/ FetchNext \/ RetryNext
  \/ ChainNext \/ LoggerNext \/ HcNext \/ HeNext \/ FbNext

\* the whole process: every component, interleaved
Spec == Init /\ [][Next]_vars

\* one component at a time, the others at rest
InitBreaker ==
  now = 0 /\ CbInit /\ RlAtRest /\ CacheInit /\ FetchInit /\ RtInit /\ LgAtRest
  /\ HcAtRest /\ RestAtRest

SpecBreaker == InitBreaker /\ [][CbNext]_vars

\* time passes, execute calls keep arriving from every caller, and every
\* wrapped function settles
RecoveryFair ==
  /\ WF_vars(Tick)
  /\ WF_vars(TickOn)
  /\ \A c \in Calls : WF_vars(execute(c))
  /\ \A c \in Calls : WF_vars(fnResolves(c))
  /\ \A c \in Calls : WF_vars(fnSettlesLate(c))

SpecRecovery == InitBreaker /\ [][RecoveryNext]_vars /\ RecoveryFair

InitLimiter ==
  now = 0 /\ CbAtRest /\ RlInit /\ CacheInit /\ FetchInit /\ RtInit /\ LgAtRest
  /\ HcAtRest /\ RestAtRest

SpecLimiter == InitLimiter /\ [][RlNext]_vars

InitCache ==
  now = 0 /\ CbAtRest /\ RlAtRest /\ CacheInit /\ FetchInit /\ RtInit /\ LgAtRest
  /\ HcAtRest /\ RestAtRest

SpecRetry == InitCache /\ [][RetryNext]_vars

\* the chain with failureThreshold = 1
InitChain ==
  /\ now = 0
  /\ \E options \in CbOptionSets :
       options.failureThreshold = 1 /\ CbNew(options)
  /\ RlInit
  /\ CacheInit
  /\ FetchInit
  /\ RtInit
  /\ LgAtRest
  /\ HcAtRest
  /\ RestAtRest

SpecChain == InitChain /\ [][ChainNext]_vars

InitLogger ==
  now = 0 /\ CbAtRest /\ RlAtRest /\ CacheInit /\ FetchInit /\ RtInit /\ LgInit
  /\ HcAtRest /\ RestAtRest

InitHealth ==
  now = 0 /\ CbAtRest /\ RlAtRest /\ CacheInit /\ FetchInit /\ RtInit /\ LgAtRest
  /\ HcInit /\ RestAtRest

SpecHealth == InitHealth /\ [][HcNext]_vars

InitEndpoint ==
  now = 0 /\ CbAtRest /\ RlAtRest /\ CacheInit /\ FetchInit /\ RtInit /\ LgAtRest
  /\ HcAtRest /\ HeInit /\ FbAtRest

SpecEndpoint == InitEndpoint /\ [][HeNext]_vars

InitFallback ==
  now = 0 /\ CbAtRest /\ RlAtRest /\ CacheInit /\ FetchInit /\ RtInit /\ LgAtRest
  /\ HcAtRest /\ HeAtRest /\ FbAtRest

SpecFallback == InitFallback /\ [][FbNext]_vars

SpecLogger == InitLogger /\ [][LoggerNext]_vars

SpecCache == InitCache /\ [][CacheNext]_vars

SpecFetch == InitCache /\ [][FetchNext]_vars

(***************************************************************************)
(* Properties: CircuitBreaker                                              *)
(***************************************************************************)
\* the execute() call of c settles as a failure in this step (fn threw or
\* the per-call timer fired): the step that runs onFailure()
CallFails(c) ==
  /\ callPc[c] = "racing"
  /\ callPc'[c] # "racing"
  /\ callResult'[c] \in {"error", "timeout"}

\* C1: whenever the breaker is HALF_OPEN, any single failing execute call
\* moves the state to OPEN and sets nextAttempt to now + resetTimeout,
\* whatever failureThreshold is and whatever succeeded before.
C1_HalfOpenFailureReopens ==
  [][\A c \in Calls :
       (cbState = "HALF_OPEN" /\ CallFails(c))
         => (cbState' = "OPEN" /\ nextAttempt' = now + cbOptions.resetTimeout)]_vars

\* C4 as stated: while state = OPEN and now < nextAttempt no wrapped function
\* is executing, whenever its execute call started.
C4_NoCallRunsWhileOpen ==
  (cbState = "OPEN" /\ now < nextAttempt) => \A c \in Calls : callPc[c] = "idle"

\* C4 amended: while state = OPEN and now < nextAttempt no execute call
\* invokes its wrapped function (it is rejected and the breaker is left as
\* it was); functions invoked earlier may still be running.
C4_NoCallStartsWhileOpen ==
  [][\A c \in Calls :
       (cbState = "OPEN" /\ now < nextAttempt /\ callPc[c] = "idle")
         => /\ callPc'[c] = "idle"
            /\ (callResult'[c] # callResult[c] =>
                  /\ callResult'[c] = "blocked"
                  /\ cbState' = cbState
                  /\ UNCHANGED <<failureCount, successCount, nextAttempt>>)]_vars

\* C4 witness: an execute call has been rejected by the open breaker while
\* a function invoked earlier is still running.
C4_Witness ==
  /\ cbState = "OPEN"
  /\ now < nextAttempt
  /\ \E c, d \in Calls : callResult[c] = "blocked" /\ callPc[d] # "idle"

\* the execute() call of c settles as a success in this step
CallSucceeds(c) ==
  /\ callPc[c] = "racing"
  /\ callPc'[c] # "racing"
  /\ callResult'[c] = "ok"

\* C11: the breaker starts CLOSED; while CLOSED, a failing execute call
\* opens it with nextAttempt = now + resetTimeout exactly when it is the
\* failureThreshold-th call to fail since the last success (or reset()),
\* fewer failures in a row leave it CLOSED with nextAttempt as it was, a
\* success sets failureCount to 0, and nothing else takes it out of CLOSED.
C11_OpensAtThreshold ==
  /\ cbState = "CLOSED"
  /\ [][/\ \A c \in Calls :
             (cbState = "CLOSED" /\ CallFails(c))
               => IF streak + 1 >= cbOptions.failureThreshold
                    THEN cbState' = "OPEN" /\ nextAttempt' = now + cbOptions.resetTimeout
                    ELSE cbState' = "CLOSED" /\ nextAttempt' = nextAttempt
        /\ \A c \in Calls : (CallSucceeds(c) => failureCount' = 0)
        /\ (cbState = "CLOSED" /\ cbState' # "CLOSED")
             => \E c \in Calls : CallFails(c)]_vars

\* C11 witness: a failure left the breaker CLOSED, a later one has opened it.
C11_Witness ==
  /\ cbState = "OPEN"
  /\ streak = cbOptions.failureThreshold
  /\ streak > 1
  /\ nextAttempt > now
  /\ \E c \in Calls : callResult[c] \in {"error", "timeout"}

\* C12: execute(fn) called while state = OPEN and now < nextAttempt rejects
\* with the breaker-open error, does not invoke fn, and leaves state,
\* failureCount, successCount and nextAttempt unchanged.
C12_BlockedCallChangesNothing ==
  [][\A c \in Calls :
       (cbState = "OPEN" /\ now < nextAttempt /\ execute(c))
         => /\ callResult'[c] = "blocked"
            /\ callPc'[c] = "idle"
            /\ callStart' = callStart
            /\ UNCHANGED <<cbState, failureCount, successCount, nextAttempt>>]_vars

\* C12 witness: every caller is idle, one of them has just been rejected
\* by the open breaker inside its cooldown.
C12_Witness ==
  /\ cbState = "OPEN"
  /\ now < nextAttempt
  /\ \A c \in Calls : callPc[c] = "idle"
  /\ \E c \in Calls : callResult[c] = "blocked"

\* C13: the state goes from OPEN to HALF_OPEN only in an execute call made
\* at now >= nextAttempt, and that call invokes fn; no other step (a timer,
\* the passing of time) takes it out of OPEN, reset() apart.  In HALF_OPEN a
\* succeeding call closes the breaker exactly when it is the
\* successThreshold-th success in a row since HALF_OPEN was entered, and
\* nothing but such a success (or reset()) takes HALF_OPEN to CLOSED.
C13_RecoveryPath ==
  [][/\ (cbState = "OPEN" /\ cbState' # "OPEN" /\ ~cbReset)
          => /\ cbState' = "HALF_OPEN"
             /\ now >= nextAttempt
             /\ \E c \in Calls : execute(c) /\ callPc'[c] = "racing"
     /\ \A c \in Calls :
          (cbState = "HALF_OPEN" /\ CallSucceeds(c))
            => cbState' = IF okRun + 1 >= cbOptions.successThreshold
                            THEN "CLOSED" ELSE "HALF_OPEN"
     /\ (cbState = "HALF_OPEN" /\ cbState' = "CLOSED" /\ ~cbReset)
          => \E c \in Calls : CallSucceeds(c)]_vars

\* C13 witness: the breaker is CLOSED again after more than one success in
\* HALF_OPEN, a call having failed before.
C13_Witness ==
  /\ cbState = "CLOSED"
  /\ okRun = cbOptions.successThreshold
  /\ okRun > 1
  /\ \E c \in Calls : callResult[c] = "ok"

\* C14: whenever the breaker is OPEN, if from some time on every wrapped
\* call succeeds before its timer and execute calls keep arriving, the
\* breaker is eventually CLOSED and CLOSED for good, however the concurrent
\* execute calls interleave.
C14_EventuallyClosed == [](cbState = "OPEN" => <>[](cbState = "CLOSED"))

\* C14 witness: the dependency has recovered and the breaker, opened with a
\* cooldown that ends after the recovery, is CLOSED again after successes
\* in HALF_OPEN.
C14_Witness ==
  /\ cbState = "CLOSED"
  /\ ~Unhealthy
  /\ nextAttempt >= MaxNow
  /\ okRun = cbOptions.successThreshold
  /\ successCount = cbOptions.successThreshold

(***************************************************************************)
(* Properties: RateLimiter                                                 *)
(***************************************************************************)
\* C2: in every reachable state 0 <= tokens <= maxTokens, under any
\* interleaving of acquire, tryAcquire, getAvailableTokens and reset.
C2_TokensInRange == 0 <= tokens /\ tokens <= rlOptions.maxTokens

\* C3: every deduction made for a caller (an acquire that returns, at once
\* or after its wait, or a successful tryAcquire) found at least the n
\* tokens it takes.
C3_GrantFoundTokens == rlGrant.found >= rlGrant.n

(***************************************************************************)
(* Properties: Cache                                                       *)
(***************************************************************************)
Size(m) == Cardinality(DOMAIN m)

\* the stored key whose latest get hit or set is the oldest
LeastRecent(m, r) == Head(SelectSeq(r, LAMBDA x : x \in DOMAIN m))

\* C5: a set of a new key while the cache holds maxSize entries evicts
\* exactly one entry, the stored one whose latest get hit or set is the
\* oldest, keeps the others as they are, and inserts the new entry.
C5_SetEvictsLeastRecent ==
  [][(Size(cache) = CacheMaxSize /\ now' = now)
       => \A k \in Keys :
            LET ck == generateKey(k) IN
            ck \notin DOMAIN cache
              => \A v \in Values : \A t \in TtlArgs :
                   cacheSet(k, v, t)
                     => LET victim == LeastRecent(cache, recent) IN
                        /\ DOMAIN cache' = (DOMAIN cache \ {victim}) \cup {ck}
                        /\ last'.evicted = victim
                        /\ \A j \in DOMAIN cache \ {victim} : cache'[j] = cache[j]
                        /\ cache'[ck].value = v]_vars

\* C5 witness: a set of a new key has just evicted a key from the full
\* cache, and the new key is the most recently used of the stored ones.
C5_Witness ==
  /\ last.evicted # ""
  /\ last.evicted \notin DOMAIN cache
  /\ Size(cache) = CacheMaxSize
  /\ Len(recent) = CacheMaxSize
  /\ recent[Len(recent)] = accessOrder[Len(accessOrder)]

\* C6: after any sequence of set, get, delete, clear and cleanup calls,
\* size() <= maxSize and accessOrder holds exactly the stored keys, each once.
C6_BoundedAndOrdered ==
  /\ Size(cache) <= CacheMaxSize
  /\ Len(accessOrder) = Size(cache)
  /\ {accessOrder[i] : i \in 1..Len(accessOrder)} = DOMAIN cache

\* C6 witness: the cache is full right after an eviction.
C6_Witness ==
  /\ last.evicted # ""
  /\ Size(cache) = CacheMaxSize
  /\ Len(accessOrder) = CacheMaxSize

\* C7: get(k) returns the stored value if and only if an entry for k exists
\* and now < expiresAt; at now >= expiresAt (now = expiresAt included) it
\* returns null.
C7_GetHitsIffBeforeExpiry ==
  [][\A k \in Keys :
       LET ck == generateKey(k) IN
       cacheGet(k)
         => /\ last'.hit <=> (ck \in DOMAIN cache /\ now < cache[ck].expiresAt)
            /\ last'.hit => last'.ret = cache[ck].value
            /\ ~last'.hit => last'.ret = "null"]_vars

\* C8: for every ttl given to set(k, v, ttl): a get(k) of the entry that set
\* wrote returns v before ttl has elapsed since the set; the first get(k)
\* after ttl has elapsed returns null, removes that entry (size() one
\* less) and leaves every other entry as it is.
C8_LazyExpiryAfterTtl ==
  [][\A k \in Keys :
       LET ck == generateKey(k) IN
       (cacheGet(k) /\ ck \in DOMAIN cache /\ lastSet.key = ck)
         => /\ now < lastSet.due =>
                 /\ last'.hit
                 /\ last'.ret = cache[ck].value
                 /\ cache' = cache
            /\ now > lastSet.due =>
                 /\ ~last'.hit
                 /\ last'.ret = "null"
                 /\ cache' = MapDelete(cache, ck)
                 /\ Size(cache') = Size(cache) - 1]_vars

(***************************************************************************)
(* Properties: fetchWithCache                                              *)
(***************************************************************************)
\* C9: a call that finds an unexpired entry for its key returns the cached
\* value without invoking the producer, whatever value was stored; a call
\* that finds none (or an expired one) invokes the producer once, and when
\* the producer returns v the call stores v and returns it.
C9_HitSkipsProducer ==
  [][/\ \A p \in Fetchers : \A k \in Keys : \A t \in TtlArgs :
          LET ck == generateKey(k) IN
          fetchWithCache(p, k, t)
            => /\ (ck \in DOMAIN cache /\ now < cache[ck].expiresAt)
                    => /\ fPc'[p] = "idle"
                       /\ fOut' = Out("hit", cache[ck].value)
               /\ (ck \notin DOMAIN cache \/ now > cache[ck].expiresAt)
                    => fPc'[p] = "fetching"
     /\ \A p \in Fetchers : \A v \in Values :
          fetcherResolves(p, v)
            => /\ cache'[generateKey(fArg[p].key)].value = v
               /\ fOut' = Out("stored", v)]_vars

\* C10 as stated, for calls that leave no stored null behind (so that the
\* stored-null miss of C9 plays no part): when the producer throws, the
\* error propagates and the cache (entries and access order) is exactly
\* what it was before the call, no other task having touched it.
C10_CacheAsBeforeCall ==
  [][\A p \in Fetchers :
       LET ck == generateKey(fArg[p].key) IN
       (fetcherRejects(p) /\ ~fDirty[p] /\ ck \notin DOMAIN cache)
         => /\ fOut'.kind = "error"
            /\ ~fTouched[p]
            /\ cache' = cache
            /\ accessOrder' = accessOrder]_vars

\* C10 amended: when the producer throws, the error propagates and the call
\* stores nothing: the cache is what the call's own get left.  That get
\* changes the cache for the call's key only: it purges an expired entry,
\* or marks a stored null most recently used.  Unless another task changed
\* the cache meanwhile, the key is then absent or holds null, and only a
\* call that finds a value other than null returns without its producer.
C10_FailureNotCached ==
  [][/\ \A p \in Fetchers :
          LET ck == generateKey(fArg[p].key) IN
          fetcherRejects(p)
            => /\ fOut'.kind = "error"
               /\ cache' = cache
               /\ accessOrder' = accessOrder
               /\ ~fDirty[p] => (ck \notin DOMAIN cache' \/ cache'[ck].value = "null")
     /\ \A p \in Fetchers :
          (fPc[p] = "idle" /\ fPc'[p] = "fetching")
            => LET k == fArg'[p].key
                   ck == generateKey(k) IN
               fetchWithCache(p, k, fArg'[p].ttl)
                 => /\ \A j \in CacheKeys \ {ck} :
                         /\ j \in DOMAIN cache' <=> j \in DOMAIN cache
                         /\ j \in DOMAIN cache => cache'[j] = cache[j]
                    /\ ck \in DOMAIN cache' =>
                         /\ ck \in DOMAIN cache
                         /\ cache'[ck] = cache[ck]
                         /\ cache[ck].value = "null"
                    /\ (ck \in DOMAIN cache /\ ck \notin DOMAIN cache') =>
                         now > cache[ck].expiresAt
                    /\ Without(accessOrder', ck) = Without(accessOrder, ck)
     /\ (now' = now /\ fPc' = fPc /\ fOut'.kind = "hit")
          => \A p \in Fetchers : \A k \in Keys : \A t \in TtlArgs :
               LET ck == generateKey(k) IN
               fetchWithCache(p, k, t)
                 => (ck \in DOMAIN cache /\ cache[ck].value # "null")]_vars

\* C10 witness: a call whose own get changed the cache (it purged the
\* expired entry of its key, or moved a stored null to the end of the
\* order) has ended with the producer's error, no other task having
\* touched the cache.
C10_Witness ==
  /\ fOut.kind = "error"
  /\ fOut.touched
  /\ ~fOut.dirty

(***************************************************************************)
(* fetchWithRetry: properties                                              *)
(***************************************************************************)
\* a transport or timeout error, as the callers of fetch see one
TransportOrTimeout(error) ==
  \/ error.name = "TypeError" /\ error.message = "fetch failed"
  \/ error.name = "AbortError"
  \/ error.message = "network timeout"

\* C16: a call of fetchWithRetry invokes the work at most maxRetries + 1
\* times; a success that follows k retryable failures is returned after
\* exactly k + 1 invocations, and a call all of whose attempts failed
\* retryably throws after exactly maxRetries + 1 invocations.
C16_AttemptsBounded ==
  /\ rtCalls[1] <= rtOptions[1].maxRetries + 1
  /\ (rtOut[1].kind = "returned" /\ ok(rtOut[1].status))
       => (rtFailed[1] <= rtOptions[1].maxRetries /\ rtCalls[1] = rtFailed[1] + 1)
  /\ (rtOut[1].kind = "thrown" /\ rtFailed[1] = rtCalls[1])
       => rtCalls[1] = rtOptions[1].maxRetries + 1

C16_Witness ==
  /\ rtOut[1].kind = "returned"
  /\ ok(rtOut[1].status)
  /\ rtFailed[1] = 2
  /\ rtCalls[1] = 3

\* C17: a response that is neither OK nor of a retryable status is returned
\* as a value on the attempt that received it, with no wait, no onRetry and
\* no further invocation; as the first response, after one invocation.
C17_OtherStatusReturned ==
  [][\A status \in Statuses :
       (attemptResponds(status) /\ ~ok(status) /\ status \notin RetryableStatuses)
         => /\ rtOut'[1] = returned(status)
            /\ rtPc'[1] = "idle"
            /\ rtWaits'[1] = rtWaits[1]
            /\ rtOnRetry'[1] = rtOnRetry[1]
            /\ rtCalls'[1] = rtCalls[1]
            /\ (rtAttempt[1] = 1 => rtCalls'[1] = 1)]_vars

C17_Witness ==
  /\ rtOut[1] = returned(404)
  /\ rtOptions[1].maxRetries > 0
  /\ rtCalls[1] = 1

\* C18: an error that is neither a transport or timeout error nor carries a
\* retryable status is thrown again on the attempt where it occurred, with
\* no wait, no onRetry and no further invocation, whatever attempts remain.
C18_OtherErrorRethrown ==
  [][\A error \in Errors :
       (/\ attemptThrows(error)
        /\ ~TransportOrTimeout(error)
        /\ error.status \notin RetryableStatuses)
         => /\ rtOut'[1] = thrown(error)
            /\ rtPc'[1] = "idle"
            /\ rtWaits'[1] = rtWaits[1]
            /\ rtOnRetry'[1] = rtOnRetry[1]
            /\ rtCalls'[1] = rtCalls[1]]_vars

C18_Witness ==
  /\ rtOut[1].kind = "thrown"
  /\ rtOut[1].error.message = "boom"
  /\ rtAttempt[1] <= rtOptions[1].maxRetries
  /\ rtCalls[1] = 1

(***************************************************************************)
(* The chain: properties                                                   *)
(***************************************************************************)
\* fn is invoked: an attempt of fetchWithRetry starts
Invokes(c) == rtPc[c] # "attempting" /\ rtPc'[c] = "attempting"

\* execute() is reached by the call of c in this step
ReachesExecute(c) ==
  \/ refilledTokens >= 1 /\ chainCall(c)
  \/ chainResumes(c)

FirstFailureOpens ==
  \A c \in Callers :
    CallFails(c) => cbState' = "OPEN" /\ nextAttempt' = now + cbOptions.resetTimeout

BlockedWithoutInvoking ==
  \A c \in Callers :
    (CbBlocked /\ ReachesExecute(c))
      => /\ callResult'[c] = "blocked"
         /\ callPc'[c] = "idle"
         /\ ~Invokes(c)
         /\ UNCHANGED <<rtVars, cbState, failureCount, successCount, nextAttempt>>

\* C15 as stated: with failureThreshold = 1 and fn always failing with a
\* network timeout, the failure of a call opens the breaker, a call that
\* reaches execute() before resetTimeout has elapsed is rejected with the
\* breaker-open error, and fn is not invoked once the breaker has opened.
C15_NoInvocationOnceOpen ==
  [][/\ FirstFailureOpens
     /\ BlockedWithoutInvoking
     /\ CbBlocked => \A c \in Callers : ~Invokes(c)]_vars

\* C15: with failureThreshold = 1 and fn always failing with a network
\* timeout, the failure of a call opens the breaker, and a call that reaches
\* execute() before resetTimeout has elapsed is rejected with the
\* breaker-open error without invoking fn; while the breaker is OPEN, fn is
\* invoked only by the retries of calls admitted before it opened.
C15_SecondCallBlocked ==
  [][/\ FirstFailureOpens
     /\ BlockedWithoutInvoking
     /\ CbBlocked => \A c \in Callers : (Invokes(c) => rtPc[c] = "waiting")]_vars

\* the second call has been rejected while the retries of the first, whose
\* execute() was ended by the timer, go on
C15_Witness ==
  /\ cbState = "OPEN"
  /\ now < nextAttempt
  /\ callResult[1] = "timeout"
  /\ callResult[2] = "blocked"
  /\ rtPc[1] = "attempting"
  /\ rtCalls[1] >= 2

(***************************************************************************)
(* Logger: properties                                                      *)
(***************************************************************************)
\* a POST to the sink starts
Posts(e) == sendPc[e] # "posting" /\ sendPc'[e] = "posting"

\* the delivery of an entry ends in failure, or in success
DeliveryFails(e) ==
  \E outcome \in PostOutcomes \ {"ok"} : postSettles(e, outcome) /\ sendPc'[e] = "idle"

DeliverySucceeds(e) == postSettles(e, "ok")

\* C19: every failed delivery adds one to the process-wide counter, the
\* LambdaFailureLimit-th in a row starts the cooldown window, a successful
\* delivery zeroes the counter, and while now < lambdaDisabledUntil no POST
\* starts for any entry, those whose delivery began earlier included.
C19_NoPostInsideWindow ==
  [][/\ \A e \in Entries :
          DeliveryFails(e)
            => IF consecutiveLambdaFailures + 1 >= LambdaFailureLimit
                 THEN lambdaDisabledUntil' = now + lgEnv.cooldownMs
                 ELSE consecutiveLambdaFailures' = consecutiveLambdaFailures + 1
     /\ \A e \in Entries : (DeliverySucceeds(e) => consecutiveLambdaFailures' = 0)
     /\ \A e \in Entries : (Posts(e) => ~(now < lambdaDisabledUntil))]_vars

\* C20: no call of info, warn, error or debug throws to its caller,
\* whatever data it is given and whatever the sink answers.
C20_LogNeverRaises == logRaised = FALSE

\* a POST has settled and the delivery goes on to sleep before its retry
Retries(e) == sendPc[e] = "posting" /\ sendPc'[e] = "sleeping"

\* C21 as stated: a delivery makes at most 1 + maxAttempts POSTs, sleeps a
\* time linear in the attempt number before a retry, retries only after a
\* 5xx answer, and ends on the first 2xx.
C21_RetriesOnlyAfter5xx ==
  [][\A e \in Entries :
       /\ sendAttempt'[e] <= 1 + lgEnv.maxAttempts
       /\ Retries(e) => /\ sendWake'[e] = now + sleepTicks(sendAttempt[e])
                        /\ sendResult'[e] = "5xx"
       /\ (sendPc[e] = "posting" /\ sendResult'[e] = "ok" /\ sendPc'[e] # "posting")
            => sendPc'[e] = "idle"]_vars

\* C21: a delivery makes at most 1 + maxAttempts POSTs, sleeps a time linear
\* in the attempt number before a retry, retries only after a 5xx answer or
\* a POST that threw (network error, timeout), never after another status,
\* and ends on the first 2xx.
C21_RetriesAfter5xxOrThrow ==
  [][\A e \in Entries :
       /\ sendAttempt'[e] <= 1 + lgEnv.maxAttempts
       /\ Retries(e) => /\ sendWake'[e] = now + sleepTicks(sendAttempt[e])
                        /\ sendResult'[e] \in {"5xx", "throws"}
       /\ (sendPc[e] = "posting" /\ sendResult'[e] = "ok" /\ sendPc'[e] # "posting")
            => sendPc'[e] = "idle"]_vars

\* a second POST is being made after the first one threw
C21_Witness ==
  \E e \in Entries :
    sendPc[e] = "posting" /\ sendAttempt[e] = 2 /\ sendResult[e] = "throws"

\* AWS_LOG_LAMBDA_INFO_DEDUPE_WINDOW_MS of the README, in ticks
DedupeWindow == MaxDedupeWindow

\* the calls of log() that can be made
LogCalls == [level : LogLevels, listed : BOOLEAN, data : DataKinds]

Logs(e, call) == log(e, call.level, call.listed, call.data)

\* C22: of two identical info calls less than DedupeWindow apart at most one
\* is forwarded: no POST starts for the client event while its last
\* forwarding is less than DedupeWindow old.
C22_DuplicateSuppressed ==
  [][\A e \in Entries :
       (log(e, "info", TRUE, "tagged") /\ Posts(e))
         => (infoForwardedAt < 0 \/ now - infoForwardedAt >= DedupeWindow)]_vars

\* what may be forwarded: every error and warn entry, no debug entry, an
\* info entry only when it is the client event
Eligible(call) ==
  \/ call.level \in {"error", "warn"}
  \/ ClientEvent(call.level, call.listed, call.data)

\* C23: with the sink configured and outside the cooldown every error and
\* warn entry is forwarded; no debug entry and no info entry other than the
\* tagged client event is ever forwarded.
C23_OnlyEligibleForwarded ==
  [][\A e \in Entries : \A call \in LogCalls :
       Logs(e, call)
         => /\ (/\ call.level \in {"error", "warn"}
                /\ lgEnv.configured
                /\ ~(now < lambdaDisabledUntil)
                /\ ~logRaised') => Posts(e)
            /\ ~Eligible(call) => ~Posts(e)]_vars

\* C24: every call of info, warn, error or debug prints its entry and
\* returns, and has waited for no step of the delivery: the POST it started
\* has not settled and the failure counter and the cooldown are as before.
C24_PrintsAndReturns ==
  [][\A e \in Entries : \A call \in LogCalls :
       Logs(e, call)
         => /\ logPrinted'
            /\ ~logRaised'
            /\ sendPc'[e] \in {"idle", "posting"}
            /\ sendPc'[e] = "posting" => sendAttempt'[e] = 1
            /\ UNCHANGED <<sendResult, consecutiveLambdaFailures,
                           lambdaDisabledUntil>>]_vars

(***************************************************************************)
(* RateLimiter: refill                                                     *)
(***************************************************************************)
\* floor((now - lastRefill) / refillInterval) * refillRate
tokensToAdd == ((now - lastRefill) \div rlOptions.refillInterval) * rlOptions.refillRate

\* the tokens a call finds: those left plus the refill, clamped to maxTokens
tokensFound == Min(tokens + tokensToAdd, rlOptions.maxTokens)

C30_ClosedBelowThreshold ==
  cbState = "CLOSED" => failureCount < cbOptions.failureThreshold

\* a CLOSED breaker one failure short of opening, with a call in flight
C30_Witness ==
  /\ cbState = "CLOSED"
  /\ cbOptions.failureThreshold = 2
  /\ failureCount = 1
  /\ \E c \in Calls : callPc[c] = "racing"

====
